---- MODULE Spec2Model ----
(***************************************************************************)
(* Model of setup.py: the build of the optional C extensions, the          *)
(* classification of build errors into BuildFailed, and the module-level   *)
(* decision chain that falls back to a plain-Python build.                 *)
(*                                                                         *)
(* A Python string is modelled as a sequence of pieces; the pieces of an   *)
(* error message are single characters, the fixed status texts are one     *)
(* piece each.  An exception is a record [cls, msg, cause]; cause is a     *)
(* sequence holding zero or one exception.                                 *)
(***************************************************************************)
EXTENDS Integers, Sequences, FiniteSets, TLC

\* Longest run of filler characters put before and after the interesting
\* part of an error message produced by the toolchain.
MaxPad == 1

VARIABLES
    cpython,          \* platform.python_implementation() == "CPython"
    platform,         \* sys.platform
    environ,          \* os.environ, the two variables setup.py reads
    argv_builds,      \* the command line asks for a command that builds
    pc,               \* position of the interpreter in setup.py
    site,             \* call site of the run_setup() call in progress
    run_setup_calls,  \* with_cext argument of every run_setup() call
    setup_calls,      \* ext_modules keyword of every setup() call
    declared,         \* has_ext_modules() answers given to the packaging
    ext_idx,          \* index of the extension build_ext is building
    compiled,         \* extensions handed to the toolchain, in order
    exc,              \* exception in flight / being handled
    raised,           \* the error the toolchain raised, and in which method
    stdout            \* status blocks printed, each a sequence of lines

vars == <<cpython, platform, environ, argv_builds, pc, site, run_setup_calls,
          setup_calls, declared, ext_idx, compiled, exc, raised, stdout>>

----------------------------------------------------------------------------
\* Strings

Pads == UNION {[1..n -> {"x"}] : n \in 0..MaxPad}

PathNeedle == <<"'", "p", "a", "t", "h", "'">>

MsgCores == { <<>>,
              PathNeedle,
              <<"p", "a", "t", "h">>,
              <<"'", "p", "a", "t", "h">> }

ErrMsgs == {a \o c \o b : a \in Pads, c \in MsgCores, b \in Pads}

\* a test that finds sub only at the start of s
Contains_prefix(sub, s) ==
    Len(s) >= Len(sub) /\ SubSeq(s, 1, Len(sub)) = sub

\* Python's  sub in s
Contains(sub, s) ==
    \E i \in 0..(Len(s) - Len(sub)) : SubSeq(s, i + 1, i + Len(sub)) = sub

----------------------------------------------------------------------------
\* Environment

Unset == "<unset>"
EnvValues == {Unset, "", "1"}
EnvNames == {"DISABLE_SQLALCHEMY_CEXT", "REQUIRE_SQLALCHEMY_CEXT"}

\* truth value of os.environ.get(name): None and "" are false
environ_get(name) == environ[name] \notin {Unset, ""}

----------------------------------------------------------------------------
\* Exceptions

NoExc == [cls |-> "None", msg |-> <<>>, cause |-> <<>>]

Error(cls, msg) == [cls |-> cls, msg |-> msg, cause |-> <<>>]

\* str(e)
str(e) == e.msg

\* direct base class of the error classes the toolchain can raise
Base(cls) ==
    CASE cls = "CompileError" -> "CCompilerError"
      [] cls = "CCompilerError" -> "Exception"
      [] cls = "DistutilsExecError" -> "Exception"
      [] cls = "DistutilsPlatformError" -> "Exception"
      [] cls = "IOError" -> "Exception"
      [] cls = "TypeError" -> "Exception"
      [] cls = "ValueError" -> "Exception"
      [] cls = "RuntimeError" -> "Exception"
      [] OTHER -> "Exception"

\* isinstance(e, one of classes), for the two-level hierarchy above
isinstance(e, classes) == e.cls \in classes \/ Base(e.cls) \in classes

ToolchainClasses == {"CompileError", "CCompilerError", "DistutilsExecError",
                     "DistutilsPlatformError", "IOError", "TypeError",
                     "ValueError", "RuntimeError"}

ToolchainErrors == {Error(c, m) : c \in ToolchainClasses, m \in ErrMsgs}

\* ext_errors with IOError and TypeError added on every platform
ext_errors_everywhere ==
    {"CCompilerError", "DistutilsExecError", "DistutilsPlatformError",
     "IOError", "TypeError"}

ext_errors ==
    {"CCompilerError", "DistutilsExecError", "DistutilsPlatformError"}
        \cup (IF platform = "win32" THEN {"IOError", "TypeError"} ELSE {})

extra_compile_args == IF platform = "linux" THEN <<"-Wundef">> ELSE <<>>

ext_modules ==
    << [name |-> "sqlalchemy.cprocessors",
        sources |-> <<"lib/sqlalchemy/cextension/processors.c">>,
        extra_compile_args |-> extra_compile_args],
       [name |-> "sqlalchemy.cresultproxy",
        sources |-> <<"lib/sqlalchemy/cextension/resultproxy.c">>,
        extra_compile_args |-> extra_compile_args],
       [name |-> "sqlalchemy.cutils",
        sources |-> <<"lib/sqlalchemy/cextension/utils.c">>,
        extra_compile_args |-> extra_compile_args] >>

\* BuildFailed created where no exception is being handled
BuildFailed_lost(handled) ==
    [cls |-> "BuildFailed", msg |-> <<>>, cause |-> <<NoExc>>]

\* BuildFailed(): cause is the exception being handled when it is created
BuildFailed(handled) == [cls |-> "BuildFailed", msg |-> <<>>, cause |-> <<handled>>]

\* has_ext_modules as inherited from the base Distribution: true only with
\* a non-empty list of extensions
has_ext_modules_inherited(self_ext_modules) == Len(self_ext_modules) > 0

\* Distribution.has_ext_modules
has_ext_modules(self_ext_modules) == TRUE

----------------------------------------------------------------------------
\* Status texts

MsgNotSupported == <<"WARNING: C extensions are not supported on this Python platform, speedups are not enabled.">>
MsgPlainOk == <<"Plain-Python build succeeded.">>
MsgDisabled == <<"DISABLE_SQLALCHEMY_CEXT is set; not attempting to build C extensions.">>
MsgRequired == <<"NOTE: C extension build is required because REQUIRE_SQLALCHEMY_CEXT is set, and the build has failed; will not degrade to non-C extensions">>
MsgNotCompiled == <<"WARNING: The C extension could not be compiled, speedups are not enabled.">>
MsgFailureInfo == <<"Failure information, if any, is above.">>
MsgRetrying == <<"Retrying the build without the C extension now.">>
MsgCantBuild == <<"Can't build on this platform with REQUIRE_SQLALCHEMY_CEXT set.">>

Rule == <<"***************************************************************************">>

\* status_msgs that prints nothing
status_msgs_silent(out, msgs) == out

\* status_msgs that leaves out the closing rule
status_msgs_no_close(out, msgs) == Append(out, <<Rule>> \o msgs)

\* status_msgs(*msgs): one framed block on standard output
status_msgs(out, msgs) == Append(out, <<Rule>> \o msgs \o <<Rule>>)

\* the message lines of a printed block, without the two rules
BlockLines(block) == SubSeq(block, 2, Len(block) - 1)

----------------------------------------------------------------------------
\* Initial state: the interpreter is about to execute line 196.

Init ==
    /\ cpython \in BOOLEAN
    /\ platform \in {"win32", "linux", "darwin"}
    /\ environ \in [EnvNames -> EnvValues]
    /\ argv_builds \in BOOLEAN
    /\ pc = "main"
    /\ site = "none"
    /\ run_setup_calls = <<>>
    /\ setup_calls = <<>>
    /\ declared = <<>>
    /\ ext_idx = 0
    /\ compiled = <<>>
    /\ exc = NoExc
    /\ raised = [where |-> "none", err |-> NoExc]
    /\ stdout = <<>>

\* An exception leaves setup(): the handler of line 214 takes a BuildFailed
\* raised inside the try block, anything else ends the process.
Raise(e) ==
    /\ exc' = e
    /\ pc' = IF e.cls = "BuildFailed" /\ site = "try" THEN "except" ELSE "raised"

\* run_setup that passes the extensions whatever with_cext is
run_setup_always_cext(with_cext) ==
    /\ run_setup_calls' = Append(run_setup_calls, with_cext)
    /\ IF ~with_cext /\ environ_get("REQUIRE_SQLALCHEMY_CEXT")
       THEN /\ exc' = Error("AssertionError", MsgCantBuild)
            /\ pc' = "raised"
            /\ UNCHANGED setup_calls
       ELSE /\ setup_calls' = Append(setup_calls, ext_modules)
            /\ pc' = "setup"
            /\ UNCHANGED exc

\* run_setup without the REQUIRE_SQLALCHEMY_CEXT guard
run_setup_no_guard(with_cext) ==
    /\ run_setup_calls' = Append(run_setup_calls, with_cext)
    /\ setup_calls' = Append(setup_calls,
                             IF with_cext THEN ext_modules ELSE <<>>)
    /\ pc' = "setup"
    /\ UNCHANGED exc

\* run_setup with the test of with_cext inverted
run_setup_swapped(with_cext) ==
    /\ run_setup_calls' = Append(run_setup_calls, with_cext)
    /\ IF with_cext /\ environ_get("REQUIRE_SQLALCHEMY_CEXT")
       THEN /\ exc' = Error("AssertionError", MsgCantBuild)
            /\ pc' = "raised"
            /\ UNCHANGED setup_calls
       ELSE /\ setup_calls' = Append(setup_calls,
                                     IF with_cext THEN <<>> ELSE ext_modules)
            /\ pc' = "setup"
            /\ UNCHANGED exc

\* run_setup(with_cext) up to the call of setup()
run_setup(with_cext) ==
    /\ run_setup_calls' = Append(run_setup_calls, with_cext)
    /\ IF ~with_cext /\ environ_get("REQUIRE_SQLALCHEMY_CEXT")
       THEN /\ exc' = Error("AssertionError", MsgCantBuild)
            /\ pc' = "raised"
            /\ UNCHANGED setup_calls
       ELSE /\ setup_calls' = Append(setup_calls,
                                     IF with_cext THEN ext_modules ELSE <<>>)
            /\ pc' = "setup"
            /\ UNCHANGED exc

\* the chain without the test of cpython
Branch_no_cpython ==
    IF environ_get("DISABLE_SQLALCHEMY_CEXT") THEN "disable" ELSE "try"

\* the chain reading REQUIRE_SQLALCHEMY_CEXT where DISABLE_SQLALCHEMY_CEXT
\* is meant
Branch_wrong_name ==
    IF ~cpython THEN "not_cpython"
    ELSE IF environ_get("REQUIRE_SQLALCHEMY_CEXT") THEN "disable"
    ELSE "try"

\* the chain without the test of DISABLE_SQLALCHEMY_CEXT
Branch_no_disable ==
    IF ~cpython THEN "not_cpython" ELSE "try"

\* the branch of the module-level chain taken at lines 196, 203, 211
Branch ==
    IF ~cpython THEN "not_cpython"
    ELSE IF environ_get("DISABLE_SQLALCHEMY_CEXT") THEN "disable"
    ELSE "try"

\* lines 196-213: choose the branch and call run_setup
Main ==
    /\ pc = "main"
    /\ site' = Branch
    /\ run_setup(Branch = "try")
    /\ UNCHANGED <<cpython, platform, environ, argv_builds, raised, declared,
                   ext_idx, compiled, stdout>>

\* setup(..., distclass=Distribution, **kwargs): the distribution is created
\* from the keywords; the build command runs build_ext when the
\* distribution says it has extension modules.
setup ==
    /\ pc = "setup"
    /\ LET self_ext_modules == setup_calls[Len(setup_calls)]
           has == has_ext_modules(self_ext_modules)
       IN /\ declared' = Append(declared, has)
          /\ pc' = IF argv_builds /\ has THEN "run" ELSE "returned"
    /\ UNCHANGED <<cpython, platform, environ, argv_builds, raised, site,
                   run_setup_calls, setup_calls, ext_idx, compiled, exc,
                   stdout>>

\* the except clause of ve_build_ext.run
run_except(e) ==
    IF isinstance(e, {"DistutilsPlatformError"}) THEN BuildFailed(e) ELSE e

\* ve_build_ext.run: build_ext.run returns at once without extensions,
\* otherwise it prepares the compiler, which may fail, and then builds the
\* extensions one by one.
run ==
    /\ pc = "run"
    /\ LET extensions == setup_calls[Len(setup_calls)]
       IN IF extensions = <<>>
          THEN /\ pc' = "returned"
               /\ UNCHANGED <<ext_idx, exc, raised>>
          ELSE \E e \in {NoExc} \cup ToolchainErrors :
                 IF e = NoExc
                 THEN /\ pc' = "build_extension"
                      /\ ext_idx' = 1
                      /\ UNCHANGED <<exc, raised>>
                 ELSE /\ raised' = [where |-> "run", err |-> e]
                      /\ Raise(run_except(e))
                      /\ UNCHANGED ext_idx
    /\ UNCHANGED <<cpython, platform, environ, argv_builds, site,
                   run_setup_calls, setup_calls, declared, compiled, stdout>>

\* build_extension with a catch-all except clause
build_extension_except_all(e) == BuildFailed(e)

\* the except clauses of ve_build_ext.build_extension
build_extension_except(e) ==
    IF isinstance(e, ext_errors) THEN BuildFailed(e)
    ELSE IF isinstance(e, {"ValueError"})
         THEN IF Contains(PathNeedle, str(e)) THEN BuildFailed(e) ELSE e
         ELSE e

\* build_extension whose failure is noted while the loop goes on to the
\* next extension
build_extension_keep_going ==
    /\ pc = "build_extension"
    /\ LET extensions == setup_calls[Len(setup_calls)]
       IN /\ compiled' = Append(compiled, extensions[ext_idx].name)
          /\ \E e \in {NoExc} \cup ToolchainErrors :
                IF e = NoExc
                THEN /\ IF ext_idx < Len(extensions)
                        THEN /\ ext_idx' = ext_idx + 1
                             /\ UNCHANGED pc
                        ELSE /\ pc' = "returned"
                             /\ UNCHANGED ext_idx
                     /\ UNCHANGED <<exc, raised>>
                ELSE /\ raised' = [where |-> "build_extension", err |-> e]
                     /\ IF ext_idx < Len(extensions)
                        THEN /\ ext_idx' = ext_idx + 1
                             /\ UNCHANGED <<pc, exc>>
                        ELSE /\ Raise(run_except(build_extension_except(e)))
                             /\ UNCHANGED ext_idx
    /\ UNCHANGED <<cpython, platform, environ, argv_builds, site,
                   run_setup_calls, setup_calls, declared, stdout>>

\* ve_build_ext.build_extension for the extension at ext_idx; an exception
\* leaves the loop over the extensions and passes through run.
build_extension ==
    /\ pc = "build_extension"
    /\ LET extensions == setup_calls[Len(setup_calls)]
       IN /\ compiled' = Append(compiled, extensions[ext_idx].name)
          /\ \E e \in {NoExc} \cup ToolchainErrors :
                IF e = NoExc
                THEN /\ IF ext_idx < Len(extensions)
                        THEN /\ ext_idx' = ext_idx + 1
                             /\ UNCHANGED pc
                        ELSE /\ pc' = "returned"
                             /\ UNCHANGED ext_idx
                     /\ UNCHANGED <<exc, raised>>
                ELSE /\ raised' = [where |-> "build_extension", err |-> e]
                     /\ Raise(run_except(build_extension_except(e)))
                     /\ UNCHANGED ext_idx
    /\ UNCHANGED <<cpython, platform, environ, argv_builds, site,
                   run_setup_calls, setup_calls, declared, stdout>>

\* the closing statements without the status block of the DISABLE branch
Return_quiet_disable ==
    /\ pc = "returned"
    /\ stdout' =
         CASE site = "not_cpython" ->
                status_msgs(stdout, <<MsgNotSupported, MsgPlainOk>>)
           [] site = "retry" ->
                status_msgs(stdout, <<MsgNotCompiled, MsgPlainOk>>)
           [] OTHER -> stdout
    /\ pc' = "done"
    /\ UNCHANGED <<cpython, platform, environ, argv_builds, raised, site,
                   run_setup_calls, setup_calls, declared, ext_idx, compiled,
                   exc>>

\* lines 198-202, 205-209, 234-238 and the end of the try statement:
\* run_setup returned, print the closing status block and finish.
Return ==
    /\ pc = "returned"
    /\ stdout' =
         CASE site = "not_cpython" ->
                status_msgs(stdout, <<MsgNotSupported, MsgPlainOk>>)
           [] site = "disable" ->
                status_msgs(stdout, <<MsgDisabled, MsgPlainOk>>)
           [] site = "retry" ->
                status_msgs(stdout, <<MsgNotCompiled, MsgPlainOk>>)
           [] OTHER -> stdout
    /\ pc' = "done"
    /\ UNCHANGED <<cpython, platform, environ, argv_builds, raised, site,
                   run_setup_calls, setup_calls, declared, ext_idx, compiled,
                   exc>>

\* the handler without the status block of the REQUIRE branch
except_BuildFailed_no_note ==
    /\ pc = "except"
    /\ IF environ_get("REQUIRE_SQLALCHEMY_CEXT")
       THEN /\ pc' = "raised"
            /\ UNCHANGED <<stdout, site, run_setup_calls, setup_calls, exc>>
       ELSE /\ stdout' = status_msgs(stdout,
                            <<str(exc.cause[1]), MsgNotCompiled,
                              MsgFailureInfo, MsgRetrying>>)
            /\ site' = "retry"
            /\ run_setup(FALSE)
    /\ UNCHANGED <<cpython, platform, environ, argv_builds, raised, declared,
                   ext_idx, compiled>>

\* the handler without the raise of line 222
except_BuildFailed_no_raise ==
    /\ pc = "except"
    /\ stdout' =
         LET out == IF environ_get("REQUIRE_SQLALCHEMY_CEXT")
                    THEN status_msgs(stdout, <<MsgRequired>>)
                    ELSE stdout
         IN status_msgs(out, <<str(exc.cause[1]), MsgNotCompiled,
                               MsgFailureInfo, MsgRetrying>>)
    /\ site' = "retry"
    /\ run_setup(FALSE)
    /\ UNCHANGED <<cpython, platform, environ, argv_builds, raised, declared,
                   ext_idx, compiled>>

\* lines 214-232: the handler of BuildFailed
except_BuildFailed ==
    /\ pc = "except"
    /\ IF environ_get("REQUIRE_SQLALCHEMY_CEXT")
       THEN /\ stdout' = status_msgs(stdout, <<MsgRequired>>)
            /\ pc' = "raised"
            /\ UNCHANGED <<site, run_setup_calls, setup_calls, exc>>
       ELSE /\ stdout' = status_msgs(stdout,
                            <<str(exc.cause[1]), MsgNotCompiled,
                              MsgFailureInfo, MsgRetrying>>)
            /\ site' = "retry"
            /\ run_setup(FALSE)
    /\ UNCHANGED <<cpython, platform, environ, argv_builds, raised, declared,
                   ext_idx, compiled>>

Next ==
    \/ Main
    \/ setup
    \/ run
    \/ build_extension
    \/ Return
    \/ except_BuildFailed

Spec == Init /\ [][Next]_vars

----------------------------------------------------------------------------
\* Vocabulary of the orchestrator's terminal states

Exited == pc \in {"done", "raised"}

ExitCode == IF pc = "done" THEN 0 ELSE 1

Succeeded == pc = "done" /\ site = "try"

FellBack == pc = "done" /\ site \in {"not_cpython", "disable", "retry"}

RequiredFailed == pc = "raised" /\ exc.cls = "BuildFailed"

TypeOK ==
    /\ pc \in {"main", "setup", "run", "build_extension", "returned",
                "except", "done", "raised"}
    /\ site \in {"none", "not_cpython", "disable", "try", "retry"}
    /\ ext_idx \in 0..Len(ext_modules)

----------------------------------------------------------------------------
\* The program runs to its end: the interpreter executes statement after
\* statement and every toolchain call returns or raises.
FairSpec == Spec /\ WF_vars(Next)

Disable == environ_get("DISABLE_SQLALCHEMY_CEXT")

Require == environ_get("REQUIRE_SQLALCHEMY_CEXT")

Range(s) == {s[i] : i \in DOMAIN s}

\* the lines of every status block printed so far
LinesPrinted == UNION {Range(BlockLines(stdout[i])) : i \in DOMAIN stdout}

\* a classified build failure has been raised out of run_setup(True)
ClassifiedFailure == exc.cls = "BuildFailed"

----------------------------------------------------------------------------
\* The safety part of C1: the calls made, their order and the final state.
C1_FallbackSafe ==
    (cpython /\ ~Disable /\ ~Require /\ ClassifiedFailure) =>
        /\ Len(setup_calls) \in {1, 2}
        /\ setup_calls[1] = ext_modules
        /\ Len(setup_calls) = 2 => setup_calls[2] = <<>>
        /\ run_setup_calls \in {<<TRUE>>, <<TRUE, FALSE>>}
        /\ site = "retry" => pc \notin {"except", "raised", "build_extension"}
        /\ Len(stdout) <= 2
        /\ Exited => FellBack /\ ExitCode = 0 /\ Len(stdout) = 2

\* C1: on CPython with DISABLE and REQUIRE both unset, after a classified
\* build failure setup() is run at most twice, first with the full list of
\* extensions and then with the empty list; the second run raises nothing;
\* the process ends in FellBack with exit code 0 and exactly two status
\* blocks printed, and it does end.
C1_Fallback ==
    /\ []C1_FallbackSafe
    /\ (cpython /\ ~Disable /\ ~Require /\ ClassifiedFailure)
           ~> (FellBack /\ site = "retry" /\ Len(stdout) = 2)

C1_Witness ==
    /\ cpython /\ ~Disable /\ ~Require /\ ClassifiedFailure
    /\ pc = "done" /\ site = "retry"
    /\ setup_calls = <<ext_modules, <<>> >>
    /\ Len(stdout) = 2

\* C2: on CPython with REQUIRE set and DISABLE unset, after a classified
\* build failure the build has run exactly once, run_setup(False) is never
\* called, and the process ends with the BuildFailed re-raised (nonzero
\* exit, RequiredFailed) after exactly one status block.
C2_RequiredFailed ==
    (cpython /\ Require /\ ~Disable /\ ClassifiedFailure) =>
        /\ run_setup_calls = <<TRUE>>
        /\ setup_calls = <<ext_modules>>
        /\ pc \in {"except", "raised"}
        /\ Len(stdout) = IF pc = "raised" THEN 1 ELSE 0
        /\ Exited => RequiredFailed /\ ExitCode # 0

C2_Witness ==
    /\ cpython /\ Require /\ ~Disable
    /\ RequiredFailed
    /\ Len(stdout) = 1

\* C3 as stated: when a classified build failure ends the process under
\* REQUIRE, the text of the original cause is among the lines of the status
\* block printed before the failure.
C3_CausePrinted ==
    (Require /\ RequiredFailed) => str(exc.cause[1]) \in LinesPrinted

\* C3 amended: when a classified build failure ends the process under
\* REQUIRE, the one status block printed holds the single NOTE line saying
\* that the build is required and has failed; the text of the original
\* cause is not among its lines.
C3_NoteOnly ==
    (Require /\ RequiredFailed) =>
        /\ stdout = << <<Rule, MsgRequired, Rule>> >>
        /\ str(exc.cause[1]) \notin LinesPrinted

C3_Witness ==
    /\ Require /\ RequiredFailed
    /\ exc.cause[1].msg = PathNeedle
    /\ Len(stdout) = 1

\* C4 as stated: on a non-CPython interpreter, for every combination of the
\* DISABLE and REQUIRE flags, run_setup(True) is never called and the
\* process ends in FellBack with exit code 0.
C4_IncapableFellBack ==
    ~cpython =>
        /\ TRUE \notin Range(run_setup_calls)
        /\ Exited => FellBack /\ ExitCode = 0

\* C4 amended: on a non-CPython interpreter, for every combination of the
\* flags, run_setup(True) is never called and no extension reaches the
\* toolchain; with REQUIRE unset the process ends in FellBack with exit
\* code 0; with REQUIRE set run_setup(False) raises AssertionError before
\* setup() is called and the process ends with a nonzero exit.
C4_Incapable ==
    ~cpython =>
        /\ TRUE \notin Range(run_setup_calls)
        /\ \A i \in DOMAIN setup_calls : setup_calls[i] = <<>>
        /\ compiled = <<>>
        /\ (Exited /\ ~Require) => FellBack /\ ExitCode = 0
        /\ (Exited /\ Require) =>
              /\ pc = "raised" /\ exc.cls = "AssertionError"
              /\ setup_calls = <<>>

C4_Witness ==
    /\ ~cpython /\ ~Require
    /\ FellBack
    /\ run_setup_calls = <<FALSE>>
    /\ Len(stdout) = 1

\* C5: whenever DISABLE is set, on any platform and with any REQUIRE value,
\* run_setup(True) is never called and the extensions are never handed to
\* setup() nor to the toolchain.
C5_DisabledNoAttempt ==
    Disable =>
        /\ TRUE \notin Range(run_setup_calls)
        /\ \A i \in DOMAIN setup_calls : setup_calls[i] = <<>>
        /\ compiled = <<>>
        /\ pc \notin {"build_extension", "except"}

C5_Witness ==
    /\ Disable /\ cpython
    /\ pc = "done"
    /\ setup_calls = << <<>> >>

\* C6 as stated: with DISABLE and REQUIRE both set on CPython no native
\* attempt is made and the build completes as a plain build (FellBack, exit
\* code 0), as if only DISABLE were set.
C6_RequireNoOp ==
    (cpython /\ Disable /\ Require) =>
        /\ TRUE \notin Range(run_setup_calls)
        /\ Exited => FellBack /\ ExitCode = 0

\* C6 amended: with DISABLE and REQUIRE both set on CPython no native
\* attempt is made, but REQUIRE is not a no-op: run_setup(False) raises
\* AssertionError before setup() is called, so no build runs, no status
\* block is printed and the process ends with a nonzero exit.
C6_DisableAndRequire ==
    (cpython /\ Disable /\ Require) =>
        /\ TRUE \notin Range(run_setup_calls)
        /\ setup_calls = <<>>
        /\ compiled = <<>>
        /\ stdout = <<>>
        /\ pc \in {"main", "raised"}
        /\ Exited => exc.cls = "AssertionError" /\ ExitCode # 0

C6_Witness ==
    /\ cpython /\ Disable /\ Require
    /\ pc = "raised"
    /\ run_setup_calls = <<FALSE>>

\* C7: on CPython with DISABLE unset, when the process has ended and no
\* build step raised (the first attempt succeeded), setup() has run exactly
\* once, with the full list of extensions, run_setup(False) was never
\* called, the process is in Succeeded with exit code 0 and the
\* distribution declared has_ext_modules() = true.
C7_Succeeded ==
    (cpython /\ ~Disable /\ Exited /\ exc = NoExc) =>
        /\ run_setup_calls = <<TRUE>>
        /\ setup_calls = <<ext_modules>>
        /\ Succeeded /\ ExitCode = 0
        /\ declared = <<TRUE>>

C7_Witness ==
    /\ cpython /\ ~Disable /\ argv_builds
    /\ Succeeded
    /\ Len(compiled) = Len(ext_modules)

\* C8: every distribution created, on every path, declares
\* has_ext_modules() = true; in particular the distribution of the retry
\* with the empty list of extensions does.
C8_AlwaysDeclared ==
    /\ \A i \in DOMAIN declared : declared[i] = TRUE
    /\ Len(declared) = Len(setup_calls) - (IF pc = "setup" THEN 1 ELSE 0)

C8_Witness ==
    /\ site = "retry" /\ pc = "done"
    /\ setup_calls[2] = <<>>
    /\ Len(declared) = 2

\* C9 as stated: on a non-CPython interpreter or with DISABLE set the
\* distribution is created declaring has_ext_modules() = false, and no
\* native attempt is made.
C9_DeclaredFalse ==
    (~cpython \/ Disable) =>
        /\ \A i \in DOMAIN declared : declared[i] = FALSE
        /\ TRUE \notin Range(run_setup_calls)

\* C9 amended: on a non-CPython interpreter or with DISABLE set the
\* distribution, when one is created, still declares
\* has_ext_modules() = true, and no native attempt is made.
C9_DeclaredTrueNoAttempt ==
    (~cpython \/ Disable) =>
        /\ \A i \in DOMAIN declared : declared[i] = TRUE
        /\ TRUE \notin Range(run_setup_calls)
        /\ compiled = <<>>

C9_Witness ==
    /\ ~cpython \/ Disable
    /\ pc = "done"
    /\ declared = <<TRUE>>
    /\ setup_calls = << <<>> >>

\* C10 as stated: every fallback and every termination of the process with
\* an error, the AssertionError of run_setup(False) included, comes after a
\* printed status block.
C10_NoBareFailure ==
    /\ site = "retry" => Len(stdout) >= 1
    /\ pc = "raised" => Len(stdout) >= 1

\* C10 amended: every fallback and every termination with a re-raised
\* BuildFailed comes after a printed status block naming the action taken
\* (retry, or no degrading); a termination with the AssertionError of
\* run_setup(False) or with an unclassified error comes with no status
\* block printed at all.
C10_StatusBeforeFallback ==
    /\ site = "retry" =>
          /\ Len(stdout) >= 1
          /\ BlockLines(stdout[1]) =
                <<str(exc.cause[1]), MsgNotCompiled, MsgFailureInfo, MsgRetrying>>
    /\ (pc = "raised" /\ exc.cls = "BuildFailed") =>
          stdout = << <<Rule, MsgRequired, Rule>> >>
    /\ (pc = "raised" /\ exc.cls # "BuildFailed") => stdout = <<>>

C10_Witness ==
    /\ pc = "raised"
    /\ exc.cls = "AssertionError"
    /\ stdout = <<>>

\* the toolchain has raised an error in the given method of build_ext
RaisedIn(where) == raised.where = where

\* an error message that holds 'path', quotes included, between fillers
MentionsQuotedPath(msg) ==
    \E a \in Pads, b \in Pads : msg = a \o PathNeedle \o b

\* an error that matches none of the classification rules
MatchesNoRule(e) ==
    /\ ~isinstance(e, ext_errors)
    /\ ~isinstance(e, {"DistutilsPlatformError"})
    /\ ~(isinstance(e, {"ValueError"}) /\ MentionsQuotedPath(str(e)))

\* C11: an error raised during the native build that matches none of the
\* classification rules leaves the build and the script unchanged: it is
\* not turned into BuildFailed, setup() is not run again with the empty
\* list, nothing is printed and the process fails.
C11_UnclassifiedPropagates ==
    (~RaisedIn("none") /\ MatchesNoRule(raised.err)) =>
        /\ exc = raised.err
        /\ pc = "raised"
        /\ run_setup_calls = <<TRUE>>
        /\ setup_calls = <<ext_modules>>
        /\ stdout = <<>>

C11_Witness ==
    /\ RaisedIn("build_extension")
    /\ raised.err.cls = "RuntimeError"
    /\ exc = raised.err
    /\ pc = "raised"

\* C12: an IOError or TypeError raised while building an extension is
\* turned into BuildFailed exactly when sys.platform is win32; on every
\* other platform it leaves the build unchanged and ends the process.
C12_Win32Only ==
    (RaisedIn("build_extension") /\ raised.err.cls \in {"IOError", "TypeError"}) =>
        IF platform = "win32"
        THEN exc.cls = "BuildFailed" /\ exc.cause = <<raised.err>>
        ELSE exc = raised.err /\ pc = "raised"

C12_Witness ==
    /\ platform = "win32"
    /\ RaisedIn("build_extension")
    /\ raised.err.cls = "IOError"
    /\ FellBack

\* C13: a ValueError raised while building an extension is turned into
\* BuildFailed exactly when its message holds 'path' with the quotes;
\* otherwise it is re-raised unchanged and ends the process.
C13_QuotedPath ==
    (RaisedIn("build_extension") /\ raised.err.cls = "ValueError") =>
        IF MentionsQuotedPath(raised.err.msg)
        THEN exc.cls = "BuildFailed"
        ELSE exc = raised.err /\ pc = "raised"

C13_Witness ==
    /\ RaisedIn("build_extension")
    /\ raised.err = Error("ValueError", <<"x">> \o PathNeedle)
    /\ exc.cls = "BuildFailed"
    /\ pc = "except"

\* C14 as stated: in each terminal state, Succeeded, FellBack and
\* RequiredFailed, at least one status block has been printed.
C14_StatusAtEveryTerminal ==
    (Succeeded \/ FellBack \/ RequiredFailed) => Len(stdout) >= 1

\* C14 amended: status_msgs is called on reaching FellBack (the early exits
\* of the non-CPython and DISABLE branches included) and RequiredFailed, so
\* at least one status block has been printed there; on reaching Succeeded
\* it is not called and no status block has been printed.
C14_StatusAtFallbackAndFailure ==
    /\ FellBack =>
          /\ Len(stdout) >= 1
          /\ BlockLines(stdout[Len(stdout)])[2] = MsgPlainOk
    /\ RequiredFailed => Len(stdout) = 1
    /\ Succeeded => stdout = <<>>

C14_Witness ==
    /\ Succeeded
    /\ ~argv_builds
    /\ stdout = <<>>

\* C15: every BuildFailed carries as its cause exactly the error the
\* toolchain raised, and on the fallback path the text of that cause is
\* the first message line of the status block printed before the retry.
C15_CauseKept ==
    /\ exc.cls = "BuildFailed" =>
          /\ ~RaisedIn("none")
          /\ exc.cause = <<raised.err>>
    /\ site = "retry" =>
          /\ Len(stdout) >= 1
          /\ BlockLines(stdout[1])[1] = str(raised.err)
          /\ BlockLines(stdout[1])[4] = MsgRetrying

C15_Witness ==
    /\ site = "retry"
    /\ raised.err = Error("CompileError", <<"p", "a", "t", "h">>)
    /\ Len(stdout) = 1
    /\ pc = "setup"

\* the names of the first n extensions
FirstNames(n) == [i \in 1..n |-> ext_modules[i].name]

\* C16 as stated: when the attempt reports a classified failure of one
\* extension, the toolchain has been invoked for every extension.
C16_WholeBatch ==
    (RaisedIn("build_extension") /\ ClassifiedFailure) =>
        compiled = FirstNames(Len(ext_modules))

\* C16 amended: an error raised for one extension ends the attempt at
\* once: the toolchain has been invoked for the extensions up to the
\* failing one, in order, and is not invoked for the remaining ones.
C16_StopsAtFirstFailure ==
    RaisedIn("build_extension") =>
        /\ compiled = FirstNames(ext_idx)
        /\ pc # "build_extension"

C16_Witness ==
    /\ RaisedIn("build_extension")
    /\ ClassifiedFailure
    /\ compiled = FirstNames(1)
    /\ pc = "done"

\* C17: with REQUIRE set the process ends successfully only after setup()
\* has run once with the full list of extensions and no build step raised;
\* on a non-CPython interpreter, with DISABLE set, or after a classified
\* failure it ends with a raised error.
C17_RequireNeverPlain ==
    (Require /\ Exited) =>
        /\ pc = "done" =>
              /\ site = "try"
              /\ setup_calls = <<ext_modules>>
              /\ exc = NoExc
        /\ (~cpython \/ Disable \/ ~RaisedIn("none")) =>
              /\ pc = "raised"
              /\ \A i \in DOMAIN setup_calls : setup_calls[i] # <<>>

C17_Witness ==
    /\ Require /\ cpython /\ ~Disable
    /\ argv_builds
    /\ pc = "done"
    /\ compiled = FirstNames(Len(ext_modules))

\* C18: with an unchanging environment the AssertionError of
\* run_setup(False) is raised only from the non-CPython and DISABLE
\* branches, before anything is printed; a retry announced by the status
\* block is never ended by it.
C18_GuardOnlyEarly ==
    /\ exc.cls = "AssertionError" =>
          /\ site \in {"not_cpython", "disable"}
          /\ run_setup_calls = <<FALSE>>
          /\ stdout = <<>>
    /\ site = "retry" =>
          /\ ~Require
          /\ MsgRetrying \in LinesPrinted
          /\ pc \in {"setup", "run", "returned", "done"}
          /\ exc.cls = "BuildFailed"

C18_Witness ==
    /\ site = "retry"
    /\ MsgRetrying \in LinesPrinted
    /\ pc = "returned"

====
